---- MODULE Spec2Model ----
(***************************************************************************)
(* Model of curseradio (src/curseradio/curseradio.py): the OPML node tree  *)
(* (OPMLOutline, OPMLOutlineLink, OPMLAudio, OPMLFavourites), the          *)
(* flattening visitor, and the OPMLBrowser main loop with its cursor and   *)
(* viewport arithmetic.                                                    *)
(*                                                                         *)
(* Indices (top, cursor, target) are 0-based as in the code; the row list  *)
(* flat is a TLA+ sequence, so row  i  of the code is  flat[i + 1].        *)
(***************************************************************************)
EXTENDS Integers, Sequences, FiniteSets, TLC

VARIABLES
    children,   \* node -> sequence of nodes      (OPMLNode.children)
    collapsed,  \* branch node -> BOOLEAN         (OPMLOutline.collapsed)
    ready,      \* link node -> BOOLEAN           (OPMLOutlineLink.ready)
    dirty,      \* OPMLFavourites.dirty
    flat,       \* OPMLBrowser.flat: sequence of [node, depth]
    selected,   \* OPMLBrowser.selected
    top,        \* OPMLBrowser.top
    cursor,     \* OPMLBrowser.cursor
    maxy,       \* OPMLBrowser.maxy
    child,      \* OPMLBrowser.child: "none", "running", "exited"
    status,     \* OPMLBrowser.status
    pc,         \* position of the main loop / of the running activation
    events,     \* what activate() has yielded in this loop iteration
    fetched,    \* link node -> number of requests made for its document
    alive,      \* number of launched player processes still running
    storage,    \* the body save_favourites has written to the favourites file
    written,    \* save_favourites has written the file in this session
    codec       \* a document taken through from_xml and to_xml

vars == <<children, collapsed, ready, dirty, flat, selected, top, cursor,
          maxy, child, status, pc, events, fetched, alive, storage, written,
          codec>>

-----------------------------------------------------------------------------
(* Bounds of the model *)

\* screen heights offered to getmaxyx(): 1 .. MaxY
MaxY == 3
\* the favourite key adds a member only while fewer than MaxFav are held
MaxFav == 1
\* a document holds at most MaxDocLen top-level entries, and an entry of a
\* document at most MaxDocLen entries of its own
MaxDocLen == 1

-----------------------------------------------------------------------------
(* The directory served to this session *)

Root == "root"
Fav == "fav"

\* <outline> elements by the class from_element builds for them
Outlines == {"O1"}
Links == {"L1"}
Audios == {"A1", "A2", "FA"}

Nodes == {Root, Fav} \cup Outlines \cup Links \cup Audios
Branches == {Root, Fav} \cup Outlines \cup Links

\* children given to each node when it is constructed
InitialChildren(n) ==
    CASE n = Root -> <<"O1">>
      [] n = "O1" -> <<"A1", "L1">>
      [] OTHER -> <<>>

\* what the favourites file may hold at startup: absent/empty, or one station
StoredFavourites == {<<>>, <<"FA">>}

\* the documents the URL of a link may answer with
LinkDocs(l) == {<<>>, <<"A2">>}

\* the responses a playlist URL may answer with, as lines of text
Playlists == {<<"s1">>, <<"s2", "s3">>}

Url(n) == <<"url", n>>

\* the text attribute: the stored favourite FA is a copy of station A1
Text(n) == IF n \in {"A1", "FA"} THEN "Radio 1" ELSE n

Min(a, b) == IF a < b THEN a ELSE b
Max(a, b) == IF a > b THEN a ELSE b

-----------------------------------------------------------------------------
(* OPMLNode.flatten / OPMLOutline.flatten *)

Row(n, d) == [node |-> n, depth |-> d]

\* the recursion of flatten never returns: some chain of expanded branches
\* from n is longer than the number of nodes, so it revisits a node
RECURSIVE DeepChain(_, _, _, _)
DeepChain(n, k, chn, col) ==
    \/ k = 0
    \/ /\ n \in Branches
       /\ ~col[n]
       /\ \E i \in 1..Len(chn[n]) : DeepChain(chn[n][i], k - 1, chn, col)

Diverges(chn, col) == DeepChain(Root, Cardinality(Nodes) + 1, chn, col)

RECURSIVE flattenSeq(_, _, _, _, _)

\* flatten with the test of self.collapsed left out
flattenIgnoringCollapsed(n, depth, chn, col) ==
    <<Row(n, depth)>> \o
        (IF n \in Branches
            THEN flattenSeq(chn[n], 1, depth + 1, chn, col)
            ELSE <<>>)

RECURSIVE flatten(_, _, _, _)
flatten(n, depth, chn, col) ==
    <<Row(n, depth)>> \o
        (IF n \in Branches /\ ~col[n]
            THEN flattenSeq(chn[n], 1, depth + 1, chn, col)
            ELSE <<>>)

\* for c in self.children: c.flatten(result, depth+1)
flattenSeq(cs, i, depth, chn, col) ==
    IF i > Len(cs) THEN <<>>
    ELSE flatten(cs[i], depth, chn, col) \o flattenSeq(cs, i + 1, depth, chn, col)

-----------------------------------------------------------------------------
(* OPMLBrowser.move *)

\* the backward scan of move(to="parent"): rows target-1 .. 0 of showobjs
RECURSIVE ParentScan(_, _, _, _)

\* the scan stopping at a row of the same depth instead of one level up
ParentScanSameDepth(fl, i, target, cdepth) ==
    IF i < 0 THEN target
    ELSE IF target >= 0
         THEN IF fl[i + 1].depth = cdepth
                 THEN target - 1
                 ELSE ParentScan(fl, i - 1, target - 1, cdepth)
         ELSE ParentScan(fl, i - 1, target, cdepth)

ParentScan(fl, i, target, cdepth) ==
    IF i < 0 THEN target
    ELSE IF target >= 0
         THEN IF fl[i + 1].depth = cdepth - 1
                 THEN target - 1
                 ELSE ParentScan(fl, i - 1, target - 1, cdepth)
         ELSE ParentScan(fl, i - 1, target, cdepth)

ParentTarget(fl, t) == ParentScan(fl, t - 1, t, fl[t + 1].depth)

Clamp(target, fl) == Max(Min(target, Len(fl) - 1), 0)

\* the scroll recalculation leaving one row too few above the target
ScrollOffByOne(target, tp, my) ==
    IF target < tp
        THEN [top |-> target, cursor |-> 0]
    ELSE IF target > tp + my - 1
        THEN [top |-> target - (my - 1), cursor |-> my - 2]
    ELSE [top |-> tp, cursor |-> target - tp]

\* the scroll recalculation for a clamped target
Scroll(target, tp, my) ==
    IF target < tp
        THEN [top |-> target, cursor |-> 0]
    ELSE IF target > tp + my - 1
        THEN [top |-> target - (my - 2), cursor |-> my - 2]
    ELSE [top |-> tp, cursor |-> target - tp]

\* move with the raw target already chosen
move(rawTarget, fl, tp, my) ==
    LET target == Clamp(rawTarget, fl)
        s == Scroll(target, tp, my)
    IN  [selected |-> fl[target + 1].node, top |-> s.top, cursor |-> s.cursor]

\* OPMLBrowser.display: the rows drawn and the drawn row shown bold
display(fl, tp, cur, my) ==
    LET last == Min(tp + my - 1, Len(fl))
        shown == IF tp < last THEN tp .. (last - 1) ELSE {}
    IN  [rows |-> shown,
         bold |-> {r \in shown : r - tp = cur}]

-----------------------------------------------------------------------------
(* The events activate() yields: strings, and a list for the player *)

Msg(text) == [type |-> "str", val |-> text]
Cmd(args) == [type |-> "list", val |-> args]

\* f"Loading {self.url}"
LoadingMsg(n) == Msg(<<"Loading">> \o Url(n))
DoneMsg == Msg(<<"Loading... done">>)
FetchingMsg == Msg(<<"Fetching playlist">>)

\* the last line of the response instead of the first
LastLine(resp) == resp[Len(resp)]

\* r.text.split("\n")[0]
FirstLine(resp) == resp[1]

-----------------------------------------------------------------------------
(* OPMLFavourites.toggle *)

InSeq(s, x) == \E i \in 1..Len(s) : s[i] = x

\* a remove that leaves the list as it is
RemoveNothing(s, x) == s

\* list.remove: drops the first occurrence
RemoveFirst(s, x) ==
    LET i == CHOOSE k \in 1..Len(s) : s[k] = x /\ \A j \in 1..(k - 1) : s[j] # x
    IN  SubSeq(s, 1, i - 1) \o SubSeq(s, i + 1, Len(s))

\* toggle without the membership test: always appends
toggleAlwaysAppends(favs, other) == Append(favs, other)

toggle(favs, other) ==
    IF InSeq(favs, other) THEN RemoveFirst(favs, other) ELSE Append(favs, other)

-----------------------------------------------------------------------------
(* OPML documents: <outline> elements, and the nodes built from them *)

\* a URL is the sequence of the characters of its text
HttpPrefix == <<"h", "t", "t", "p", ":", "/", "/">>

\* the s inserted after the colon instead of before it
UpgradeAfterColon(url) ==
    IF Len(url) >= Len(HttpPrefix) /\ SubSeq(url, 1, Len(HttpPrefix)) = HttpPrefix
        THEN SubSeq(url, 1, 5) \o <<"s">> \o SubSeq(url, 6, Len(url))
        ELSE url

\* if url.startswith('http://'): f'{url[:4]}s{url[4:]}'
Upgrade(url) ==
    IF Len(url) >= Len(HttpPrefix) /\ SubSeq(url, 1, Len(HttpPrefix)) = HttpPrefix
        THEN SubSeq(url, 1, 4) \o <<"s">> \o SubSeq(url, 5, Len(url))
        ELSE url

\* an attribute mapping; "" and <<>> stand for an attribute that is absent
NoAttr == [type |-> "", URL |-> <<>>, text |-> ""]

\* an <outline> element: its attributes and its child elements
Element(attr, kids) == [attr |-> attr, kids |-> kids]

\* a node object: its class, self.attr and self.children
Object(cls, attr, chn) == [cls |-> cls, attr |-> attr, children |-> chn]

\* what from_element and from_xml give: a node, or an exception
Raised == [ok |-> FALSE, node |-> Object("", NoAttr, <<>>)]
Returned(v) == [ok |-> TRUE, node |-> v]

RECURSIVE from_element(_)
from_element(e) ==
    LET attr == [e.attr EXCEPT !.URL = Upgrade(@)]
        type_ == IF (attr.type = "" /\ Len(e.kids) > 0) \/ attr.type = "text"
                    THEN "outline"
                    ELSE attr.type
        kids == [i \in 1..Len(e.kids) |-> from_element(e.kids[i])]
    IN  CASE type_ = "outline" ->
                IF \A i \in 1..Len(e.kids) : kids[i].ok
                    THEN Returned(Object("OPMLOutline", attr,
                                [i \in 1..Len(e.kids) |-> kids[i].node]))
                    ELSE Raised
          [] type_ = "link" ->
                \* KeyError of attr['URL'], AssertionError of len(element) == 0
                IF attr.URL = <<>> \/ Len(e.kids) # 0
                    THEN Raised
                    ELSE Returned(Object("OPMLOutlineLink", attr, <<>>))
          [] type_ = "audio" ->
                IF attr.URL = <<>> \/ Len(e.kids) # 0
                    THEN Raised
                    ELSE Returned(Object("OPMLAudio", attr, <<>>))
          [] OTHER -> Raised  \* node is unbound at "return node"

\* from_xml on the body of a document: the fake parent of its entries
from_xml(cls, doc) ==
    LET kids == [i \in 1..Len(doc) |-> from_element(doc[i])]
    IN  IF \A i \in 1..Len(doc) : kids[i].ok
            THEN Returned(Object(cls, NoAttr, [i \in 1..Len(doc) |-> kids[i].node]))
            ELSE Raised

\* OPMLNode.to_element, and OPMLOutline.to_element for the branch classes
RECURSIVE to_element(_)
to_element(v) ==
    Element(v.attr,
            IF v.cls = "OPMLAudio"
                THEN <<>>
                ELSE [i \in 1..Len(v.children) |-> to_element(v.children[i])])

\* OPMLNode.to_xml: the body holds the element of the node
to_xml(v) == <<to_element(v)>>

\* OPMLFavourites.to_xml: the body holds the elements of the children
favourites_to_xml(v) == [i \in 1..Len(v.children) |-> to_element(v.children[i])]

\* the class and the attributes of the nodes of this session
ClassOf(n) ==
    CASE n = Fav -> "OPMLFavourites"
      [] n \in Links -> "OPMLOutlineLink"
      [] n \in Audios -> "OPMLAudio"
      [] OTHER -> "OPMLOutline"

Attr(n) ==
    CASE n \in {Root, Fav} -> NoAttr
      [] n \in Outlines -> [type |-> "", URL |-> <<>>, text |-> Text(n)]
      [] n \in Links -> [type |-> "link", URL |-> Url(n), text |-> Text(n)]
      [] OTHER -> [type |-> "audio", URL |-> Url(n), text |-> Text(n)]

\* the object graph below node n
RECURSIVE ObjectOf(_, _)
ObjectOf(n, chn) ==
    Object(ClassOf(n), Attr(n),
           IF n \in Branches
               THEN [i \in 1..Len(chn[n]) |-> ObjectOf(chn[n][i], chn)]
               ELSE <<>>)

\* to_element of some favourite never returns: a chain of children from it
\* revisits a node
ToXmlDiverges(chn) ==
    \E i \in 1..Len(chn[Fav]) :
        DeepChain(chn[Fav][i], Cardinality(Nodes) + 1, chn, [b \in Branches |-> FALSE])

\* self.favourites.to_xml()
FavouritesDocument(chn) == favourites_to_xml(ObjectOf(Fav, chn))

\* the documents given to the codec: entries that from_element supports
CodecUrls == {HttpPrefix \o <<"a">>, <<"h", "t", "t", "p", "s", ":", "/", "/", "a">>}
LeafElements ==
    {Element([type |-> t, URL |-> u, text |-> "t"], <<>>) :
        t \in {"audio", "link"}, u \in CodecUrls}
    \cup {Element([type |-> t, URL |-> <<>>, text |-> "t"], <<>>) : t \in {"text", "outline"}}
SeqsUpTo(S, n) == UNION {[1..k -> S] : k \in 0..n}
BranchElements ==
    {Element([type |-> t, URL |-> <<>>, text |-> "b"], ks) :
        t \in {"", "outline", "text"}, ks \in SeqsUpTo(LeafElements, MaxDocLen) \ {<<>>}}
Documents == SeqsUpTo(LeafElements \cup BranchElements, MaxDocLen)
CodecClasses == {"OPMLOutline", "OPMLFavourites"}

CodecIdle == [stage |-> "idle", cls |-> "", doc |-> <<>>, node |-> Raised, out |-> <<>>]

-----------------------------------------------------------------------------
(* The player process slot *)

\* stop_child: terminate() and wait() on the tracked process, if any
stop_child(c) == IF c = "none" THEN "none" ELSE "exited"
\* a stop_child that leaves the tracked process running
stop_aliveLeavesRunning(c, a) == a

stop_alive(c, a) == IF c = "running" THEN a - 1 ELSE a

\* the poll at the end of each loop iteration
PollChild(c) == IF c = "exited" THEN "none" ELSE c
PollStatus(c, s) == IF c = "exited" THEN <<>> ELSE s

-----------------------------------------------------------------------------
(* The state of the browser and of the node tree *)

TypeOK ==
    /\ children \in [Nodes -> Seq(Nodes)]
    /\ collapsed \in [Branches -> BOOLEAN]
    /\ ready \in [Links -> BOOLEAN]
    /\ dirty \in BOOLEAN
    /\ flat \in Seq([node : Nodes, depth : Nat])
    /\ selected \in Nodes
    /\ top \in Nat
    /\ cursor \in Int
    /\ maxy \in 1..MaxY
    /\ child \in {"none", "running", "exited"}
    /\ status \in {<<>>} \cup {<<"Playing", Text(a)>> : a \in Audios}
    /\ pc \in {"wait", "link_loading", "link_done", "audio_fetching",
               "crashed", "exited"}
    /\ events \in Seq([type : {"str", "list"}, val : Seq(STRING)])
    /\ fetched \in [Links -> Nat]
    /\ alive \in Nat
    /\ Len(storage) \in Nat
    /\ written \in BOOLEAN
    /\ codec.stage \in {"idle", "document", "parsed", "serialized"}

Init ==
    /\ \E sf \in StoredFavourites :
          children = [n \in Nodes |->
                        IF n = Root THEN <<Fav>> \o InitialChildren(Root)
                        ELSE IF n = Fav THEN sf
                        ELSE InitialChildren(n)]
    /\ collapsed = [b \in Branches |-> b # Root]
    /\ ready = [l \in Links |-> FALSE]
    /\ dirty = FALSE
    /\ flat = flatten(Root, 0, children, collapsed)
    /\ selected = Root
    /\ top = 0
    /\ cursor = 0
    /\ maxy \in 1..MaxY
    /\ child = "none"
    /\ status = <<>>
    /\ pc = "wait"
    /\ events = <<>>
    /\ fetched = [l \in Links |-> 0]
    /\ alive = 0
    /\ storage = <<>>
    /\ written = FALSE
    /\ codec = CodecIdle

\* the end of a loop iteration: poll the child, redraw, wait for a key
EndIteration(c, s) ==
    /\ child' = PollChild(c)
    /\ status' = PollStatus(c, s)
    /\ pc' = "wait"

\* self.move(...) with the raw target given
DoMove(rawTarget) ==
    LET m == move(rawTarget, flat, top, maxy)
    IN  /\ selected' = m.selected
        /\ top' = m.top
        /\ cursor' = m.cursor

\* self.flat = self.root.flatten([]); self.move(rel=0), then the end of the
\* iteration.  A flatten that never returns ends the program with Python's
\* RecursionError, before flat is assigned.
Reflatten(chn, col, c, s) ==
    IF Diverges(chn, col)
        THEN /\ pc' = "crashed"
             /\ child' = c
             /\ status' = s
             /\ UNCHANGED <<flat, selected, top, cursor>>
        ELSE LET fl == flatten(Root, 0, chn, col)
                 m == move(top + cursor, fl, top, maxy)
             IN  /\ flat' = fl
                 /\ selected' = m.selected
                 /\ top' = m.top
                 /\ cursor' = m.cursor
                 /\ EndIteration(c, s)

tree == <<children, collapsed, ready, dirty, fetched>>

\* what only the exit key and the codec touch
disk == <<storage, written, codec>>

KeyResize ==
    /\ pc = "wait"
    /\ events' = <<>>
    /\ maxy' \in 1..MaxY
    /\ EndIteration(child, status)
    /\ UNCHANGED <<tree, flat, selected, top, cursor, alive, disk>>

\* a handler that only moves the selection
MoveKey(rawTarget) ==
    /\ pc = "wait"
    /\ events' = <<>>
    /\ DoMove(rawTarget)
    /\ EndIteration(child, status)
    /\ UNCHANGED <<tree, flat, maxy, alive, disk>>

KeyUp == MoveKey(top + cursor - 1)
KeyDown == MoveKey(top + cursor + 1)
KeyStart == MoveKey(0)
KeyEnd == MoveKey(Len(flat) - 1)
KeyPageUp == MoveKey(top + cursor - maxy)
\* a page of maxy - 1 rows instead of maxy
KeyPageDownShort == MoveKey(top + cursor + maxy - 1)

KeyPageDown == MoveKey(top + cursor + maxy)

\* OPMLOutlineLink.activate with the test of self.ready left out
NeedsLoadAlways(n, rdy) == n \in Links

\* OPMLOutlineLink.activate: if not self.ready
NeedsLoad(n, rdy) == n \in Links /\ ~rdy[n]

\* self.enter(): the first step of self.selected.activate()
enter ==
    /\ pc = "wait"
    /\ UNCHANGED disk
    /\ IF selected \in Audios
          THEN /\ events' = <<FetchingMsg>>
               /\ pc' = "audio_fetching"
               /\ UNCHANGED <<tree, flat, selected, top, cursor, maxy,
                              child, status, alive>>
       ELSE IF NeedsLoad(selected, ready)
          THEN /\ events' = <<LoadingMsg(selected)>>
               /\ pc' = "link_loading"
               /\ UNCHANGED <<tree, flat, selected, top, cursor, maxy,
                              child, status, alive>>
       ELSE /\ events' = <<>>
            /\ collapsed' = [collapsed EXCEPT ![selected] = ~collapsed[selected]]
            /\ Reflatten(children, collapsed', child, status)
            /\ UNCHANGED <<children, ready, dirty, fetched, maxy, alive>>

KeyEnter == enter

KeyLeft ==
    IF selected \in Branches /\ ~collapsed[selected]
        THEN enter
        ELSE MoveKey(ParentTarget(flat, top + cursor))

KeyRight ==
    IF selected \in Branches /\ collapsed[selected]
        THEN enter
        ELSE /\ pc = "wait"
             /\ events' = <<>>
             /\ EndIteration(child, status)
             /\ UNCHANGED <<tree, flat, selected, top, cursor, maxy, alive, disk>>

\* an activate that sets self.ready before the request is made
LinkFetchMarksReadyFirst ==
    /\ pc = "link_loading"
    /\ fetched' = [fetched EXCEPT ![selected] = @ + 1]
    /\ ready' = [ready EXCEPT ![selected] = TRUE]
    /\ \/ \E doc \in LinkDocs(selected) :
             /\ children' = [children EXCEPT ![selected] = doc]
             /\ events' = Append(events, DoneMsg)
             /\ pc' = "link_done"
       \/ /\ pc' = "crashed"
          /\ UNCHANGED <<children, events>>
    /\ UNCHANGED <<collapsed, dirty, flat, selected, top, cursor, maxy,
                   child, status, alive, disk>>

\* OPMLOutlineLink.activate resumed after "Loading <url>": the request
LinkFetch ==
    /\ pc = "link_loading"
    /\ fetched' = [fetched EXCEPT ![selected] = @ + 1]
    /\ \/ \E doc \in LinkDocs(selected) :
             /\ children' = [children EXCEPT ![selected] = doc]
             /\ ready' = [ready EXCEPT ![selected] = TRUE]
             /\ events' = Append(events, DoneMsg)
             /\ pc' = "link_done"
       \/ \* requests.get, lxml or from_element raises
          /\ pc' = "crashed"
          /\ UNCHANGED <<children, ready, events>>
    /\ UNCHANGED <<collapsed, dirty, flat, selected, top, cursor, maxy,
                   child, status, alive, disk>>

\* OPMLOutlineLink.activate resumed after "Loading... done", then the rest
\* of enter()
LinkFinish ==
    /\ pc = "link_done"
    /\ collapsed' = [collapsed EXCEPT ![selected] = ~collapsed[selected]]
    /\ Reflatten(children, collapsed', child, status)
    /\ UNCHANGED <<children, ready, dirty, fetched, maxy, events, alive, disk>>

\* OPMLAudio.activate resumed after "Fetching playlist": the request, the
\* command handed to the player, then the rest of enter()
AudioFetch ==
    /\ pc = "audio_fetching"
    /\ \/ \E resp \in Playlists :
             /\ events' = Append(events, Cmd(<<FirstLine(resp)>>))
             /\ alive' = stop_alive(child, alive) + 1
             /\ Reflatten(children, collapsed, "running", <<"Playing", Text(selected)>>)
       \/ \* requests.get raises
          /\ pc' = "crashed"
          /\ UNCHANGED <<events, alive, child, status, flat, selected, top, cursor>>
    /\ UNCHANGED <<tree, maxy, disk>>

\* self.stop_child(); self.save_favourites(); return.  A to_xml that never
\* returns ends the program with RecursionError before the file is opened.
KeyExit ==
    /\ pc = "wait"
    /\ events' = <<>>
    /\ child' = stop_child(child)
    /\ alive' = stop_alive(child, alive)
    /\ IF ~dirty
          THEN /\ pc' = "exited"
               /\ UNCHANGED <<storage, written>>
       ELSE IF ToXmlDiverges(children)
          THEN /\ pc' = "crashed"
               /\ UNCHANGED <<storage, written>>
       ELSE /\ pc' = "exited"
            /\ storage' = FavouritesDocument(children)
            /\ written' = TRUE
    /\ UNCHANGED <<tree, flat, selected, top, cursor, maxy, status, codec>>

KeyStop ==
    /\ pc = "wait"
    /\ events' = <<>>
    /\ alive' = stop_alive(child, alive)
    /\ EndIteration(stop_child(child), status)
    /\ UNCHANGED <<tree, flat, selected, top, cursor, maxy, disk>>

\* the favourite key without the re-flattening
KeyFavouriteStale ==
    /\ pc = "wait"
    /\ InSeq(children[Fav], selected) \/ Len(children[Fav]) < MaxFav
    /\ events' = <<>>
    /\ dirty' = TRUE
    /\ children' = [children EXCEPT ![Fav] = toggle(@, selected)]
    /\ DoMove(top + cursor)
    /\ EndIteration(child, status)
    /\ UNCHANGED <<collapsed, ready, fetched, maxy, alive, flat, disk>>

KeyFavourite ==
    /\ pc = "wait"
    /\ InSeq(children[Fav], selected) \/ Len(children[Fav]) < MaxFav
    /\ events' = <<>>
    /\ dirty' = TRUE
    /\ children' = [children EXCEPT ![Fav] = toggle(@, selected)]
    /\ Reflatten(children', collapsed, child, status)
    /\ UNCHANGED <<collapsed, ready, fetched, maxy, alive, disk>>

\* the player process ends by itself
ProcExit ==
    /\ child = "running"
    /\ child' = "exited"
    /\ alive' = alive - 1
    /\ UNCHANGED <<tree, flat, selected, top, cursor, maxy, status, pc, events,
                   disk>>

Next ==
    \/ KeyResize
    \/ KeyUp
    \/ KeyDown
    \/ KeyStart
    \/ KeyEnd
    \/ KeyPageUp
    \/ KeyPageDown
    \/ KeyLeft
    \/ KeyRight
    \/ KeyEnter
    \/ KeyExit
    \/ KeyStop
    \/ KeyFavourite
    \/ LinkFetch
    \/ LinkFinish
    \/ AudioFetch
    \/ ProcExit

Spec == Init /\ [][Next]_vars

-----------------------------------------------------------------------------
(* The codec on its own: a document is parsed by from_xml of either class,
   and the node it returns is serialized by the to_xml of that class *)

CodecInit ==
    /\ codec \in {[stage |-> "document", cls |-> c, doc |-> X,
                    node |-> Raised, out |-> <<>>] :
                        c \in CodecClasses, X \in Documents}
    /\ children = [n \in Nodes |->
                     IF n = Root THEN <<Fav>> \o InitialChildren(Root)
                     ELSE InitialChildren(n)]
    /\ collapsed = [b \in Branches |-> b # Root]
    /\ ready = [l \in Links |-> FALSE]
    /\ dirty = FALSE
    /\ flat = flatten(Root, 0, children, collapsed)
    /\ selected = Root
    /\ top = 0
    /\ cursor = 0
    /\ maxy = 1
    /\ child = "none"
    /\ status = <<>>
    /\ pc = "wait"
    /\ events = <<>>
    /\ fetched = [l \in Links |-> 0]
    /\ alive = 0
    /\ storage = <<>>
    /\ written = FALSE

CodecParse ==
    /\ codec.stage = "document"
    /\ codec' = [codec EXCEPT !.stage = "parsed",
                              !.node = from_xml(codec.cls, codec.doc)]
    /\ UNCHANGED <<tree, flat, selected, top, cursor, maxy, child, status, pc,
                   events, alive, storage, written>>

CodecSerialize ==
    /\ codec.stage = "parsed"
    /\ codec.node.ok
    /\ codec' = [codec EXCEPT !.stage = "serialized",
                              !.out = IF codec.cls = "OPMLFavourites"
                                          THEN favourites_to_xml(codec.node.node)
                                          ELSE to_xml(codec.node.node)]
    /\ UNCHANGED <<tree, flat, selected, top, cursor, maxy, child, status, pc,
                   events, alive, storage, written>>

CodecNext ==
    \/ CodecParse
    \/ CodecSerialize

SpecCodec == CodecInit /\ [][CodecNext]_vars

-----------------------------------------------------------------------------
(* Vocabulary of the properties *)

ToggledAt(n) == [collapsed EXCEPT ![n] = ~collapsed[n]]

\* the index of the selected row, 0-based
Target == top + cursor

\* the first index after row i whose depth is not below row i's: the end of
\* the block of rows that flatten emitted beneath row i (1-based)
BlockEnd(F, i) ==
    IF \E k \in (i + 1)..Len(F) : F[k].depth <= F[i].depth
        THEN CHOOSE k \in (i + 1)..Len(F) :
                /\ F[k].depth <= F[i].depth
                /\ \A j \in (i + 1)..(k - 1) : F[j].depth > F[i].depth
        ELSE Len(F) + 1

RowNodes(F) == [i \in 1..Len(F) |-> F[i].node]

\* the nodes of the rows one level below row i inside its block, in order
ChildRows(F, i) ==
    LET IsChild(r) == r.depth = F[i].depth + 1
    IN  RowNodes(SelectSeq(SubSeq(F, i + 1, BlockEnd(F, i) - 1), IsChild))

\* the number of nodes a collapse-aware depth-first walk from n visits
RECURSIVE WalkCount(_, _, _)
RECURSIVE WalkCountSeq(_, _, _, _)
WalkCount(n, chn, col) ==
    1 + (IF n \in Branches /\ ~col[n] THEN WalkCountSeq(chn[n], 1, chn, col) ELSE 0)
WalkCountSeq(cs, i, chn, col) ==
    IF i > Len(cs) THEN 0
    ELSE WalkCount(cs[i], chn, col) + WalkCountSeq(cs, i + 1, chn, col)

\* row j lies beneath an occurrence of node b
Beneath(F, j, b) ==
    \E i \in 1..(j - 1) : F[i].node = b /\ j < BlockEnd(F, i)

\* F without the rows beneath the occurrences of b
RECURSIVE WithoutBeneath(_, _, _)
WithoutBeneath(F, j, b) ==
    IF j > Len(F) THEN <<>>
    ELSE (IF Beneath(F, j, b) THEN <<>> ELSE <<F[j]>>) \o WithoutBeneath(F, j + 1, b)

-----------------------------------------------------------------------------
(* C1: a link node has no children while ready is false; its document is  *)
(* requested only by an activation that starts with ready = false; ready, *)
(* once true, stays true; and activating a ready link requests nothing,   *)
(* yields no event, leaves children alone and only toggles collapsed.     *)

C1_EmptyUntilReady == \A l \in Links : ~ready[l] => children[l] = <<>>

C1_Step ==
    /\ \A l \in Links :
          /\ fetched'[l] # fetched[l] => ~ready[l]
          /\ ready[l] => ready'[l]
          /\ ready[l] => children'[l] = children[l]
    /\ (pc = "wait" /\ selected \in Links /\ ready[selected])
          => /\ fetched' = fetched
             /\ pc' \notin {"link_loading", "link_done"}
             /\ collapsed' \in {collapsed, ToggledAt(selected)}
    /\ (enter /\ selected \in Links /\ ready[selected])
          => /\ collapsed' = ToggledAt(selected)
             /\ events' = <<>>
             /\ UNCHANGED <<children, ready, dirty, fetched>>

\* C1: a link loads once, on an activation that finds ready false, and never again
C1_LinkLoadsOnce == [](C1_EmptyUntilReady) /\ [][C1_Step]_vars

\* a loaded link that has been activated again: expanded, then collapsed
C1_Witness ==
    /\ pc = "wait"
    /\ ready["L1"] /\ collapsed["L1"]
    /\ children["L1"] # <<>>
    /\ fetched["L1"] = 1

-----------------------------------------------------------------------------
(* C2: whenever the main loop waits for a key, the flattening of the tree  *)
(* as it then is returns, and self.flat is its result.                     *)

\* C2: at every wait for a key, flat = flatten(root) of the current tree
C2_RowListCoherent ==
    pc = "wait" =>
        /\ ~Diverges(children, collapsed)
        /\ flat = flatten(Root, 0, children, collapsed)

\* after a lazy load, an expansion and a favourites mutation
C2_Witness ==
    /\ pc = "wait"
    /\ ready["L1"] /\ ~collapsed["L1"] /\ ~collapsed["O1"] /\ ~collapsed[Fav]
    /\ dirty
    /\ children[Fav] = <<"L1">>
    /\ Len(flat) = 8

-----------------------------------------------------------------------------
(* C3: flatten is the collapse-aware pre-order walk: under each row come   *)
(* the rows of the node's children, one level deeper and in order, exactly *)
(* when the node is an expanded branch; the length is the number of nodes  *)
(* the walk visits; and collapsing an expanded node removes exactly the    *)
(* rows beneath it, leaving the other rows, their depths and order alone.  *)

C3_Walk(F, chn, col) ==
    /\ F[1] = Row(Root, 0)
    /\ BlockEnd(F, 1) = Len(F) + 1
    /\ \A i \in 1..Len(F) :
          /\ i < Len(F) => F[i + 1].depth <= F[i].depth + 1
          /\ ChildRows(F, i) =
                IF F[i].node \in Branches /\ ~col[F[i].node]
                    THEN chn[F[i].node] ELSE <<>>
          /\ (F[i].node \notin Branches \/ col[F[i].node])
                => BlockEnd(F, i) = i + 1
    /\ Len(F) = WalkCount(Root, chn, col)

C3_Collapse(F, chn, col) ==
    \A b \in Branches :
        (~col[b] /\ \E i \in 1..Len(F) : F[i].node = b)
            => flatten(Root, 0, chn, [col EXCEPT ![b] = TRUE])
                  = WithoutBeneath(F, 1, b)

\* C3: flatten is the collapse-aware pre-order walk, and collapsing removes
\* exactly the rows beneath the collapsed node
C3_FlattenIsWalk ==
    ~Diverges(children, collapsed) =>
        LET F == flatten(Root, 0, children, collapsed)
        IN  C3_Walk(F, children, collapsed) /\ C3_Collapse(F, children, collapsed)

\* a tree with nested expanded branches, a shared node and a collapsed one
C3_Witness ==
    /\ pc = "wait"
    /\ ~collapsed[Root] /\ ~collapsed["O1"] /\ ~collapsed["L1"] /\ ~collapsed[Fav]
    /\ children["L1"] = <<"A2">>
    /\ children[Fav] = <<"O1">>
    /\ Len(flat) = 10

-----------------------------------------------------------------------------
(* C4: in every state, 0 <= top + cursor <= len(flat) - 1 and selected is  *)
(* the node of row top + cursor.                                           *)

\* C4: top + cursor indexes a row of flat and selected is that row's node
C4_SelectionConsistent ==
    /\ 0 <= Target
    /\ Target <= Len(flat) - 1
    /\ selected = flat[Target + 1].node

\* the last of at least four rows is selected and the list has scrolled
C4_Witness ==
    /\ pc = "wait"
    /\ Len(flat) >= 4
    /\ Target = Len(flat) - 1
    /\ top > 0
    /\ dirty

-----------------------------------------------------------------------------
(* Steps of the main loop that end with a call of move *)

Moved ==
    /\ pc' = "wait"
    /\ \/ KeyUp \/ KeyDown \/ KeyStart \/ KeyEnd \/ KeyPageUp \/ KeyPageDown
       \/ KeyLeft
       \/ KeyRight /\ selected \in Branches /\ collapsed[selected]
       \/ KeyEnter
       \/ LinkFinish
       \/ AudioFetch
       \/ KeyFavourite

-----------------------------------------------------------------------------
(* C5: after any move, for every positive screen height maxy, cursor is   *)
(* in [0, maxy - 1].                                                       *)

\* C5: every move leaves cursor in [0, maxy - 1], whatever maxy >= 1
C5_ViewportInvariant ==
    [][Moved => (0 <= cursor' /\ cursor' <= maxy' - 1)]_vars

-----------------------------------------------------------------------------
(* C6: after any move the selected row top + cursor is one of the rows    *)
(* display draws, and it is the row drawn bold (stated for screens of at  *)
(* least two lines, which have a list line to draw on).                   *)

\* C6: every move leaves the selected row among the drawn rows, drawn bold
C6_HighlightedRowVisible ==
    [][(Moved /\ maxy' >= 2) =>
          LET d == display(flat', top', cursor', maxy')
          IN  (top' + cursor') \in d.rows /\ d.bold = {top' + cursor'}]_vars

-----------------------------------------------------------------------------
(* C7: move(rel=delta) selects clamp(top + cursor + delta, 0, len(flat)-1) *)
(* for every delta, however large; move(to=start) selects 0 and            *)
(* move(to=end) selects len(flat) - 1.                                     *)

\* deltas tried at every reachable state: -MaxDelta .. MaxDelta
MaxDelta == 12

Clamped(t) ==
    IF t < 0 THEN 0
    ELSE IF t > Len(flat) - 1 THEN Len(flat) - 1
    ELSE t

C7_AnyDelta ==
    \A delta \in (0 - MaxDelta)..MaxDelta :
        LET m == move(Target + delta, flat, top, maxy)
        IN  /\ m.top + m.cursor = Clamped(Target + delta)
            /\ m.top + m.cursor \in 0..(Len(flat) - 1)
            /\ m.selected = flat[Clamped(Target + delta) + 1].node

C7_Keys ==
    /\ KeyUp => Target' = Clamped(Target - 1)
    /\ KeyDown => Target' = Clamped(Target + 1)
    /\ KeyPageUp => Target' = Clamped(Target - maxy)
    /\ KeyPageDown => Target' = Clamped(Target + maxy)
    /\ KeyStart => Target' = 0
    /\ KeyEnd => Target' = Len(flat) - 1
    /\ (KeyUp \/ KeyDown \/ KeyPageUp \/ KeyPageDown \/ KeyStart \/ KeyEnd)
          => selected' = flat[Target' + 1].node

\* C7: relative moves select the clamped index; start and end select 0 and len - 1
C7_NavigationClamps == [](C7_AnyDelta) /\ [][C7_Keys]_vars

\* the last row selected by a jump that scrolled: the row before it is the
\* first one drawn
C7_Witness ==
    /\ pc = "wait"
    /\ maxy = 3
    /\ Len(flat) >= 5
    /\ Target = Len(flat) - 1
    /\ cursor = 1

-----------------------------------------------------------------------------
(* C8: move(to=parent) from row t of depth d selects the largest j < t     *)
(* whose row has depth d - 1, index 0 if there is none; from a depth-0 row *)
(* the selection stays at index 0.                                         *)

ParentIndex(F, t) ==
    LET S == {j \in 0..(t - 1) : F[j + 1].depth = F[t + 1].depth - 1}
    IN  IF S = {} THEN 0 ELSE CHOOSE j \in S : \A k \in S : k <= j

C8_AnyRow ==
    \A t \in 0..(Len(flat) - 1) :
        LET m == move(ParentTarget(flat, t), flat, top, maxy)
        IN  /\ m.top + m.cursor = ParentIndex(flat, t)
            /\ m.selected = flat[ParentIndex(flat, t) + 1].node
            /\ flat[t + 1].depth = 0 => (t = 0 /\ m.top + m.cursor = 0)

C8_Left ==
    (KeyLeft /\ ~(selected \in Branches /\ ~collapsed[selected]))
        => /\ Target' = ParentIndex(flat, Target)
           /\ selected' = flat[ParentIndex(flat, Target) + 1].node

\* C8: move(to=parent) selects the nearest preceding row one level up, else row 0
C8_MoveToParent == [](C8_AnyRow) /\ [][C8_Left]_vars

\* O1 is selected, two rows above the collapsed link L1 of depth 2, with the
\* depth-2 row of A1 between them
C8_Witness ==
    /\ pc = "wait"
    /\ selected = "O1"
    /\ Len(flat) >= Target + 3
    /\ flat[Target + 2] = Row("A1", 2)
    /\ flat[Target + 3] = Row("L1", 2)
    /\ ready["L1"] /\ collapsed["L1"]

-----------------------------------------------------------------------------
(* C9: the root is permanently expanded and is never a row: root.collapsed *)
(* is false, the root is not in the row list, and the depth-0 rows are     *)
(* exactly the root's children, Favourites first.                          *)

\* C9: the root stays expanded, is no row, and the depth-0 rows are its children
C9_RootNeverARow ==
    pc = "wait" =>
        /\ ~collapsed[Root]
        /\ \A i \in 1..Len(flat) : flat[i].node # Root
        /\ LET IsTop(r) == r.depth = 0
           IN  RowNodes(SelectSeq(flat, IsTop)) = children[Root]
        /\ children[Root][1] = Fav

-----------------------------------------------------------------------------
(* C10: an activation yields a finite event sequence with at most one      *)
(* command for the player, which is then the last event.  A plain branch   *)
(* and a loaded link yield nothing and toggle collapsed; an unloaded link  *)
(* yields "Loading <url>", then fetches, replaces children and sets ready, *)
(* then yields "Loading... done", and only then toggles collapsed; an      *)
(* audio node yields "Fetching playlist", then fetches, then yields one    *)
(* command carrying the first line of the response.                        *)

IsCmd(e) == e.type = "list"

C10_Events ==
    /\ Len(events) <= 2
    /\ \A i \in 1..Len(events) : IsCmd(events[i]) => i = Len(events)
    /\ pc = "link_loading" =>
          /\ selected \in Links
          /\ events = <<LoadingMsg(selected)>>
          /\ ~ready[selected] /\ children[selected] = <<>>
          /\ fetched[selected] = 0
          /\ collapsed[selected]
    /\ pc = "link_done" =>
          /\ selected \in Links
          /\ events = <<LoadingMsg(selected), DoneMsg>>
          /\ ready[selected] /\ children[selected] \in LinkDocs(selected)
          /\ fetched[selected] = 1
          /\ collapsed[selected]
    /\ pc = "audio_fetching" =>
          /\ selected \in Audios
          /\ events = <<FetchingMsg>>

C10_Step ==
    /\ (enter /\ selected \in Branches /\ (selected \in Links => ready[selected]))
          => /\ events' = <<>>
             /\ collapsed' = ToggledAt(selected)
             /\ pc' \in {"wait", "crashed"}
             /\ UNCHANGED <<children, ready, fetched, alive>>
    /\ (enter /\ selected \in Links /\ ~ready[selected])
          => /\ pc' = "link_loading"
             /\ UNCHANGED <<children, collapsed, ready, fetched, child, alive>>
    /\ (enter /\ selected \in Audios)
          => /\ pc' = "audio_fetching"
             /\ UNCHANGED <<children, collapsed, ready, fetched, child, alive>>
    /\ pc = "link_loading"
          => /\ pc' \in {"link_loading", "link_done", "crashed"}
             /\ fetched'[selected] = IF pc' = "link_loading" THEN 0 ELSE 1
             /\ collapsed' = collapsed
    /\ pc = "link_done"
          => /\ pc' \in {"link_done", "wait"}
             /\ pc' = "wait" => collapsed' = ToggledAt(selected)
             /\ UNCHANGED <<children, ready, fetched, events>>
    /\ (pc = "audio_fetching" /\ pc' = "wait")
          => /\ \E resp \in Playlists :
                   events' = <<FetchingMsg, Cmd(<<resp[1]>>)>>
             /\ child' = "running"
             /\ UNCHANGED <<children, collapsed, ready, fetched>>
    /\ (pc = "audio_fetching" /\ pc' # "wait")
          => /\ events' = events
             /\ alive' <= alive

\* C10: each kind of node yields its events in the stated order around its
\* state changes, with at most one player command, yielded last
C10_ActivationProtocol == [](C10_Events) /\ [][C10_Step]_vars

\* an audio activation has run to its end on a two-line response
C10_Witness ==
    /\ pc = "wait"
    /\ selected \in Audios
    /\ events = <<FetchingMsg, Cmd(<<"s2">>)>>
    /\ child = "running"

-----------------------------------------------------------------------------
(* C11: at most one launched player process is alive in every reachable
   state, and the tracked process is the only one alive; handling a
   PlayCommand while a process is tracked terminates that process before the
   new one is launched, so exactly one is alive afterwards; the stop and
   exit keys leave no process alive. *)

C11_AtMostOne ==
    /\ alive <= 1
    /\ child = "running" <=> alive = 1

C11_Step ==
    /\ (pc = "audio_fetching" /\ Len(events') > Len(events)) =>
          /\ child' = "running"
          /\ alive' = 1
    /\ (KeyStop \/ KeyExit) =>
          /\ child' # "running"
          /\ alive' = 0

\* C11: never two player processes alive; a launch follows the termination of the tracked process; stop and exit leave none alive
C11_SinglePlayerProcess == [](C11_AtMostOne) /\ [][C11_Step]_vars

\* a second station is being started while the first one is still playing
C11_Witness ==
    /\ pc = "audio_fetching"
    /\ child = "running"
    /\ alive = 1
    /\ status = <<"Playing", Text("A1")>>
    /\ selected = "A2"

-----------------------------------------------------------------------------
(* C12: when the request or the parse made by the activation of an unloaded
   link raises, the link keeps ready = FALSE, no children and its collapsed
   flag, no other node changes, no command for the player has been yielded,
   and the link still needs loading, so that activating it again would
   fetch again. *)

\* C12: a failed fetch leaves the link node and every other node unchanged and still to be loaded
C12_FailedFetchLeavesNode ==
    [][(pc = "link_loading" /\ pc' = "crashed") =>
          /\ UNCHANGED <<children, collapsed, ready, dirty>>
          /\ ~ready'[selected]
          /\ children'[selected] = <<>>
          /\ \A i \in 1..Len(events') : events'[i].type # "list"
          /\ selected' = selected
          /\ NeedsLoad(selected', ready')]_vars

C12_Witness ==
    /\ pc = "crashed"
    /\ selected \in Links
    /\ ~ready[selected]
    /\ children[selected] = <<>>
    /\ fetched[selected] = 1
    /\ events = <<LoadingMsg(selected)>>

-----------------------------------------------------------------------------
(* C13: a failing request during the activation of a link or of an audio
   node does not end the key loop. *)

\* C13: no step of an activation that fetches ends the session in the crashed state
C13_LoopSurvivesErrors ==
    [][(pc \in {"link_loading", "audio_fetching"}) => (pc' # "crashed")]_vars

-----------------------------------------------------------------------------
(* C14: for the favourites of every reachable state and every node n,
   toggle(n); toggle(n) gives back the same set of members, the first call
   having flipped the membership of n; every step that changes the
   favourites' children (a call of toggle) leaves dirty = TRUE. *)

Members(s) == {s[i] : i \in 1..Len(s)}

C14_DoubleToggle ==
    \A n \in Nodes :
        LET t1 == toggle(children[Fav], n)
            t2 == toggle(t1, n)
        IN  /\ InSeq(t1, n) <=> ~InSeq(children[Fav], n)
            /\ Members(t2) = Members(children[Fav])
            /\ Len(t2) = Len(children[Fav])

\* C14: toggling the same node twice restores the set of members, and dirty is true after each toggle
C14_ToggleIsInvolution ==
    [](C14_DoubleToggle) /\ [][children'[Fav] # children[Fav] => dirty']_vars

\* the favourite key was pressed on a station and pressed again on it
C14_Witness ==
    /\ pc = "wait"
    /\ dirty
    /\ children[Fav] = <<>>
    /\ selected = "A1"
    /\ flat[top + cursor + 1].node = "A1"

-----------------------------------------------------------------------------
(* C15: the children of the favourites never hold a node twice, in any
   reachable state and after one more toggle of any node. *)

NoDuplicates(s) == \A i, j \in 1..Len(s) : s[i] = s[j] => i = j

\* C15: no node occurs twice among the favourites, whatever is toggled
C15_NoDuplicateFavourites ==
    /\ NoDuplicates(children[Fav])
    /\ \A n \in Nodes : NoDuplicates(toggle(children[Fav], n))

\* a node was added after the stored favourite had been removed
C15_Witness ==
    /\ dirty
    /\ children[Fav] = <<"L1">>
    /\ ready["L1"]

-----------------------------------------------------------------------------
(* C16: the favourites file is written only by the exit key and exactly
   when dirty is true; dirty is false while the favourites are as loaded,
   becomes true with every toggle and never goes back to false. *)

C16_Step ==
    /\ dirty => dirty'
    /\ children'[Fav] # children[Fav] => dirty'
    /\ KeyExit => (written' <=> dirty)
    /\ ~KeyExit => UNCHANGED <<storage, written>>

\* C16: the exit key writes the favourites exactly when dirty is true, and dirty is true exactly from the first toggle on
C16_SaveGatedByDirty ==
    /\ [](written => dirty)
    /\ [](~dirty => children[Fav] \in StoredFavourites)
    /\ [][C16_Step]_vars

-----------------------------------------------------------------------------
(* C17: serializing the node that from_xml returns for a supported document
   gives back the entries of the document, nested as they were and with the
   attributes they had, except that a URL starting with http:// starts
   with https://; rewriting a rewritten URL changes nothing. *)

HttpsPrefix == <<"h", "t", "t", "p", "s", ":", "/", "/">>

StartsWithHttp(u) ==
    /\ Len(u) >= Len(HttpPrefix)
    /\ \A i \in 1..Len(HttpPrefix) : u[i] = HttpPrefix[i]

\* the URL with https:// in the place of http://
Rewritten(u) ==
    IF StartsWithHttp(u)
        THEN HttpsPrefix \o SubSeq(u, Len(HttpPrefix) + 1, Len(u))
        ELSE u

RECURSIVE RewrittenElement(_)
RewrittenElement(e) ==
    Element([e.attr EXCEPT !.URL = Rewritten(@)],
            [i \in 1..Len(e.kids) |-> RewrittenElement(e.kids[i])])

RewrittenDocument(d) == [i \in 1..Len(d) |-> RewrittenElement(d[i])]

C17_Idempotent ==
    \A u \in CodecUrls :
        /\ Upgrade(u) = Rewritten(u)
        /\ Upgrade(Upgrade(u)) = Upgrade(u)

\* C17: to_xml(from_xml(X)) has the entries, nesting and attributes of X up to the https rewrite, which is idempotent
C17_RoundTrip ==
    /\ C17_Idempotent
    /\ codec.stage = "parsed" => codec.node.ok
    /\ codec.stage = "serialized" => codec.out = RewrittenDocument(codec.doc)

\* C17 (amended): with OPMLFavourites, to_xml(from_xml(X)) is X up to the https rewrite; with OPMLOutline, it is one attribute-less outline around the entries of X up to the https rewrite; the rewrite is idempotent
C17_RoundTripByClass ==
    /\ C17_Idempotent
    /\ codec.stage = "parsed" => codec.node.ok
    /\ (codec.stage = "serialized" /\ codec.cls = "OPMLFavourites") =>
          codec.out = RewrittenDocument(codec.doc)
    /\ (codec.stage = "serialized" /\ codec.cls = "OPMLOutline") =>
          codec.out = <<Element(NoAttr, RewrittenDocument(codec.doc))>>

\* a nested entry with an http:// URL went through from_xml and to_xml of
\* the plain outline class
C17_Witness ==
    /\ codec.stage = "serialized"
    /\ codec.cls = "OPMLOutline"
    /\ Len(codec.doc) = 1
    /\ Len(codec.doc[1].kids) = 1
    /\ codec.doc[1].kids[1].attr.URL = HttpPrefix \o <<"a">>
    /\ codec.out[1].kids[1].kids[1].attr.URL = HttpsPrefix \o <<"a">>

-----------------------------------------------------------------------------
(* C18: no node is reachable from itself through children links. *)

AllExpanded == [b \in Branches |-> FALSE]

\* C18: the node graph is acyclic in every reachable state
C18_Acyclic ==
    \A n \in Nodes : ~DeepChain(n, Cardinality(Nodes) + 1, children, AllExpanded)

-----------------------------------------------------------------------------
(* C19: a completed Enter on a branch or link row, and a completed favourite
   key on a row that is neither the Favourites row nor beneath it, leave
   the same node selected. *)

InFavouritesSubtree(F, j) == F[j].node = Fav \/ Beneath(F, j, Fav)

C19_Step ==
    (/\ pc' = "wait"
     /\ \/ pc = "wait" /\ selected \in Branches
             /\ collapsed' # collapsed
        \/ pc = "link_done"
        \/ /\ pc = "wait"
           /\ children'[Fav] # children[Fav]
           /\ ~InFavouritesSubtree(flat, Target + 1))
    => selected' = selected

\* C19: expanding, collapsing or favouriting the selected row keeps the same node selected
C19_SelectionStable == [][C19_Step]_vars

-----------------------------------------------------------------------------
(* C20: the document written by save_favourites is parsed by from_xml
   without an exception, into children that serialize to the same
   attributes and nesting. *)

\* C20: every written favourites document reloads, with the same attributes and nesting
C20_SavedFavouritesReload ==
    written =>
        LET r == from_xml("OPMLFavourites", storage)
        IN  /\ r.ok
            /\ favourites_to_xml(r.node) = storage

====
